---- MODULE Spec2Model ----
(***************************************************************************)
(* Rule 111 -- OPEN DATASET without MODE/ENCODING (src/app/app.py).        *)
(*                                                                         *)
(* A source text is a sequence of one-character strings.  Offsets are      *)
(* 0-based as in Python: the character at offset i of text is text[i+1],   *)
(* and a span (start, end) covers the offsets start .. end-1.              *)
(* An Optional value is the empty sequence (None) or a one-element         *)
(* sequence holding the value.                                             *)
(***************************************************************************)
EXTENDS Integers, Sequences, FiniteSets, TLC

VARIABLES request,   \* the posted JSON array: a sequence of raw unit records
          pc,        \* "recv", "loop", "scan", "done" or "rejected"
          units,     \* the validated List[Unit] handed to scan_rule111
          ui,        \* index in units of the unit the for loop of line 124 is at
          src,       \* scan_unit's src
          pos,       \* offset at which STMT_RE.finditer resumes its search
          findings,  \* scan_unit's findings list
          matches,   \* the loop locals of every iteration of line 69 so far
          calls,     \* the calls of scan_unit made so far, with what they returned
          results    \* scan_rule111's results list

vars == <<request, pc, units, ui, src, pos, findings, matches, calls, results>>

----------------------------------------------------------------------------
(* Characters and character classes.                                       *)

NL == "\n"
BACKSLASH == "\\"
DOT == "."
SP == <<" ">>

LowerCase == <<"a","b","c","d","e","f","g","h","i","j","k","l","m",
               "n","o","p","q","r","s","t","u","v","w","x","y","z">>
UpperCase == <<"A","B","C","D","E","F","G","H","I","J","K","L","M",
               "N","O","P","Q","R","S","T","U","V","W","X","Y","Z">>
Digits == {"0","1","2","3","4","5","6","7","8","9"}

Range(s) == {s[k] : k \in DOMAIN s}

\* \w of the re module: letters, digits and the underscore
WordChars == Range(LowerCase) \cup Range(UpperCase) \cup Digits \cup {"_"}
\* \s of the re module
SpaceChars == {" ", "\n", "\t", "\r", "\f"}

IsWord(c) == c \in WordChars
IsSpace(c) == c \in SpaceChars

\* (?i): a character matches a pattern letter when both fold to the same letter
FoldMap ==
    [c \in Range(LowerCase) |->
        UpperCase[CHOOSE k \in DOMAIN LowerCase : LowerCase[k] = c]]
Upper(c) == IF c \in DOMAIN FoldMap THEN FoldMap[c] ELSE c

\* text[a:b] of Python, for 0 <= a and b <= len(text)
Slice(text, a, b) == SubSeq(text, a + 1, b)

\* text.count(c, 0, off)
RECURSIVE CountBefore(_, _, _)
CountBefore(text, c, off) ==
    IF off <= 0 THEN 0
    ELSE CountBefore(text, c, off - 1) + (IF text[off] = c THEN 1 ELSE 0)

Max(a, b) == IF a >= b THEN a ELSE b
Min(a, b) == IF a <= b THEN a ELSE b

----------------------------------------------------------------------------
(* The regular expressions of lines 59-62, matched as the re module does.  *)

OPEN     == <<"O","P","E","N">>
DATASET  == <<"D","A","T","A","S","E","T">>
IN_KW    == <<"I","N">>
TEXT     == <<"T","E","X","T">>
BINARY   == <<"B","I","N","A","R","Y">>
MODE     == <<"M","O","D","E">>
ENCODING == <<"E","N","C","O","D","I","N","G">>

\* \b at offset i: exactly one of the two neighbours is a word character
WordBoundary(text, i) ==
    (i > 0 /\ IsWord(text[i])) # (i < Len(text) /\ IsWord(text[i + 1]))

\* the literal kw, case-insensitively, at offset i
MatchWord(text, i, kw) ==
    /\ i + Len(kw) <= Len(text)
    /\ \A k \in 1..Len(kw) : Upper(text[i + k]) = kw[k]

\* the offset after the longest run of \s starting at offset i
RECURSIVE SkipSpaces(_, _)
SkipSpaces(text, i) ==
    IF i < Len(text) /\ IsSpace(text[i + 1]) THEN SkipSpaces(text, i + 1) ELSE i

\* \s+ at offset i: the offset after it, or -1
Spaces1(text, i) ==
    IF i < Len(text) /\ IsSpace(text[i + 1]) THEN SkipSpaces(text, i) ELSE -1

\* the offset of the first "." at or after offset i, or -1
RECURSIVE FirstDot(_, _)
FirstDot(text, i) ==
    IF i >= Len(text) THEN -1
    ELSE IF text[i + 1] = DOT THEN i
    ELSE FirstDot(text, i + 1)

----------------------------------------------------------------------------
(* STMT_RE = (?is)\bOPEN\s+DATASET\b[^.]*\.                                *)

\* STMT_RE with a greedy tail, .*\. : the span runs to the last "." of the text
STMT_RE_match_greedy(text, i) ==
    IF ~ (WordBoundary(text, i) /\ MatchWord(text, i, OPEN)) THEN -1
    ELSE LET j == Spaces1(text, i + Len(OPEN)) IN
         IF j < 0 THEN -1
         ELSE IF ~ (MatchWord(text, j, DATASET)
                      /\ WordBoundary(text, j + Len(DATASET))) THEN -1
         ELSE LET dots == {d \in (j + Len(DATASET))..(Len(text) - 1) : text[d + 1] = DOT} IN
              IF dots = {} THEN -1
              ELSE 1 + CHOOSE d \in dots : \A e \in dots : e <= d

\* STMT_RE tried at offset i: the end offset of the match, or -1.  \s+ is
\* greedy and DATASET cannot start with whitespace, [^.]* stops at the first
\* ".": there is at most one way to match from i.
STMT_RE_match(text, i) ==
    IF ~ (WordBoundary(text, i) /\ MatchWord(text, i, OPEN)) THEN -1
    ELSE LET j == Spaces1(text, i + Len(OPEN)) IN
         IF j < 0 THEN -1
         ELSE IF ~ (MatchWord(text, j, DATASET)
                      /\ WordBoundary(text, j + Len(DATASET))) THEN -1
         ELSE LET d == FirstDot(text, j + Len(DATASET)) IN
              IF d < 0 THEN -1 ELSE d + 1

\* the next match of STMT_RE.finditer from offset p: <<start, end>>, or <<>>
\* when the iterator is exhausted
RECURSIVE STMT_RE_search(_, _)
STMT_RE_search(text, p) ==
    IF p > Len(text) THEN <<>>
    ELSE IF STMT_RE_match(text, p) >= 0 THEN <<p, STMT_RE_match(text, p)>>
    ELSE STMT_RE_search(text, p + 1)

\* \bIN\s+<kw>\s+MODE\b tried at offset i of stmt
InModeAt(stmt, i, kw) ==
    /\ WordBoundary(stmt, i)
    /\ MatchWord(stmt, i, IN_KW)
    /\ LET j == Spaces1(stmt, i + Len(IN_KW)) IN
       /\ j >= 0
       /\ MatchWord(stmt, j, kw)
       /\ LET k == Spaces1(stmt, j + Len(kw)) IN
          /\ k >= 0
          /\ MatchWord(stmt, k, MODE)
          /\ WordBoundary(stmt, k + Len(MODE))

\* TEXT_MODE_RE = (?i)\bIN\s+TEXT\s+MODE\b : search(stmt) is not None
TEXT_MODE_RE_search(stmt) ==
    \E i \in 0..Len(stmt) : InModeAt(stmt, i, TEXT)

\* MODE_RE without the BINARY alternative
MODE_RE_search_text_only(stmt) ==
    \E i \in 0..Len(stmt) : InModeAt(stmt, i, TEXT)

\* MODE_RE = (?i)\bIN\s+(TEXT|BINARY)\s+MODE\b : search(stmt) is not None
MODE_RE_search(stmt) ==
    \E i \in 0..Len(stmt) : InModeAt(stmt, i, TEXT) \/ InModeAt(stmt, i, BINARY)

\* ENCODING_RE = (?i)\bENCODING\b\s+\S+ : search(stmt) is not None
ENCODING_RE_search(stmt) ==
    \E i \in 0..Len(stmt) :
        /\ WordBoundary(stmt, i)
        /\ MatchWord(stmt, i, ENCODING)
        /\ WordBoundary(stmt, i + Len(ENCODING))
        /\ LET j == Spaces1(stmt, i + Len(ENCODING)) IN
           j >= 0 /\ j < Len(stmt) /\ ~ IsSpace(stmt[j + 1])

----------------------------------------------------------------------------
(* Utility helpers, lines 44-53.                                           *)

\* line_of_offset returning the 0-based line
line_of_offset_zero_based(text, off) == CountBefore(text, NL, off)

line_of_offset(text, off) == CountBefore(text, NL, off) + 1

\* the window of snippet_at on either side of the match
SnippetPad == 60

\* s.replace("\n", "\\n")
RECURSIVE EscapeNewlines(_)
EscapeNewlines(s) ==
    IF s = <<>> THEN <<>>
    ELSE (IF Head(s) = NL THEN <<BACKSLASH, "n">> ELSE <<Head(s)>>)
         \o EscapeNewlines(Tail(s))

\* snippet_at without the replace
snippet_at_raw(text, start, end) ==
    Slice(text, Max(0, start - SnippetPad), Min(Len(text), end + SnippetPad))

snippet_at(text, start, end) ==
    LET s == Max(0, start - SnippetPad)
        e == Min(Len(text), end + SnippetPad)
    IN EscapeNewlines(Slice(text, s, e))

----------------------------------------------------------------------------
(* The models of lines 14-38 and request validation.                       *)

IdentityFields == {"pgm_name", "inc_name", "type", "name", "start_line", "end_line"}
UnitFields == IdentityFields \cup {"code", "rule111_findings"}

\* Unit with every field given a default
RequiredFields_none == {}

\* the fields of Unit declared without a default (lines 30-32)
RequiredFields == {"pgm_name", "inc_name", "type"}

\* the defaults of lines 33-38; code and rule111_findings are Optional values
Defaults ==
    [name |-> "", start_line |-> 0, end_line |-> 0,
     code |-> << <<>> >>, rule111_findings |-> <<>>]

\* A raw record of the request: raw.present is the set of keys the JSON
\* object has, raw.val the values under them.
IsValidUnit(raw) == RequiredFields \subseteq raw.present

\* Unit(**raw): a key that is absent takes the field's default
ParseUnit(raw) ==
    [f \in UnitFields |->
        IF f \in raw.present \/ f \notin DOMAIN Defaults
        THEN raw.val[f] ELSE Defaults[f]]

\* unit.code or ""
CodeOrEmpty(unit) ==
    IF unit.code = <<>> THEN <<>> ELSE unit.code[1]

----------------------------------------------------------------------------
(* scan_unit, lines 65-115.                                                *)

\* the identity fields with start_line and end_line exchanged
Identity_swapped(unit) ==
    [pgm_name |-> unit.pgm_name, inc_name |-> unit.inc_name,
     type |-> unit.type, name |-> unit.name,
     start_line |-> unit.end_line, end_line |-> unit.start_line]

\* lines 81-86 and 99-104
Identity(unit) ==
    [pgm_name |-> unit.pgm_name, inc_name |-> unit.inc_name,
     type |-> unit.type, name |-> unit.name,
     start_line |-> unit.start_line, end_line |-> unit.end_line]

MakeFinding(unit, issue, sev, line, msg, sugg, snip) ==
    LET id == Identity(unit) IN
    [pgm_name |-> id.pgm_name, inc_name |-> id.inc_name, type |-> id.type,
     name |-> id.name, start_line |-> id.start_line, end_line |-> id.end_line,
     issue_type |-> issue, severity |-> sev, line |-> line,
     message |-> msg, suggestion |-> sugg, snippet |-> snip]

\* lines 80-93
NoModeFinding(unit, text, start, end) ==
    MakeFinding(unit, "OpenDatasetNoMode", "warning",
        line_of_offset(text, start),
        "OPEN DATASET without MODE or ENCODING.",
        "Specify IN TEXT MODE ENCODING UTF-8 or IN BINARY MODE. OPEN DATASET without MODE or ENCODING.",
        snippet_at(text, start, end))

\* lines 98-111
TextNoEncodingFinding(unit, text, start, end) ==
    MakeFinding(unit, "OpenDatasetTextNoEncoding", "info",
        line_of_offset(text, start),
        "OPEN DATASET in TEXT MODE without explicit ENCODING.",
        "Add ENCODING UTF-8 (or the required codepage). OPEN DATASET without MODE or ENCODING.",
        snippet_at(text, start, end))

\* the policy with the encoding test of line 97 left out
Emit_no_encoding_test(unit, text, start, end, has_mode, is_text_mode, has_encoding) ==
    IF ~ has_mode THEN <<NoModeFinding(unit, text, start, end)>>
    ELSE IF is_text_mode
         THEN <<TextNoEncodingFinding(unit, text, start, end)>>
         ELSE <<>>

\* the body of the loop after the three searches, lines 79-111: the findings
\* this iteration appends
Emit(unit, text, start, end, has_mode, is_text_mode, has_encoding) ==
    IF ~ has_mode THEN <<NoModeFinding(unit, text, start, end)>>
    ELSE IF is_text_mode /\ ~ has_encoding
         THEN <<TextNoEncodingFinding(unit, text, start, end)>>
         ELSE <<>>

\* insertion at the front of the list
findings_prepend(fs, new) == new \o fs

\* findings.append(...), lines 80 and 98
findings_append(fs, new) == fs \o new

\* unit.model_dump() with obj["rule111_findings"] = findings, lines 113-115
ScanResult(unit, fs) == [unit EXCEPT !.rule111_findings = <<fs>>]

----------------------------------------------------------------------------
(* scan_rule111, lines 121-128.                                            *)

\* a filter that keeps every unit
ShouldReport_always(res) == TRUE

\* if res.get("rule111_findings"), line 126: a non-empty list is truthy
ShouldReport(res) ==
    res.rule111_findings # <<>> /\ res.rule111_findings[1] # <<>>

\* insertion at the front of the response
results_prepend(rs, res) == <<res>> \o rs

\* results.append(res), line 127
results_append(rs, res) == Append(rs, res)

----------------------------------------------------------------------------
(* The requests the model is run on.                                       *)

MaxPieces == 4   \* pieces concatenated into a source text
MaxBatch == 3    \* units in a batch
MaxName == 3     \* pieces of a dataset name
MaxExtra == 1    \* characters of padding beyond the snippet window
MaxBody == 2     \* filler characters inside a padded statement

RECURSIVE Fill(_, _)
Fill(n, c) == IF n <= 0 THEN <<>> ELSE <<c>> \o Fill(n - 1, c)

RECURSIVE Concats(_, _)
\* the concatenations of at most n members of ps
Concats(ps, n) ==
    IF n = 0 THEN {<<>>}
    ELSE LET T == Concats(ps, n - 1) IN T \cup {t \o q : t \in T, q \in ps}

OpenDatasetX == OPEN \o SP \o DATASET \o SP \o <<"x">>
InTextMode == SP \o IN_KW \o SP \o TEXT \o SP \o MODE
InBinaryMode == SP \o IN_KW \o SP \o BINARY \o SP \o MODE
EncodingU == SP \o ENCODING \o SP \o <<"U">>

Pieces ==
    { OpenDatasetX,
      <<"o","p","e","n",NL,"d","a","t","a","s","e","t"," ","y">>,
      InTextMode,
      <<" ","i","n"," "," ","B","i","n","a","r","y",NL,"m","o","d","e">>,
      EncodingU,
      <<DOT>>,
      <<DOT, NL>>,
      <<"S">> }

PieceTexts == Concats(Pieces, MaxPieces)

\* a statement in the middle of a long text
PadLengths == {0} \cup ((SnippetPad - 1)..(SnippetPad + MaxExtra))
PaddedTexts ==
    { Fill(a, ca) \o OPEN \o SP \o DATASET \o Fill(m, " ") \o <<DOT>> \o Fill(b, cb) :
        a \in PadLengths, b \in PadLengths, m \in 0..MaxBody,
        ca \in {" ", NL}, cb \in {"x", NL} }

\* OPEN DATASET <name> IN BINARY MODE.
BinaryStmt(name) == OPEN \o SP \o DATASET \o SP \o name \o InBinaryMode \o <<DOT>>
NamePieces == { <<"x">>, <<"'">>, <<DOT>>, SP, IN_KW \o SP \o TEXT \o SP \o MODE }
Names == Concats(NamePieces, MaxName)
BinaryTexts == { BinaryStmt(n) : n \in Names }

IdA == [pgm_name |-> "ZPROG", inc_name |-> "ZINC", type |-> "PROG",
        name |-> "MAIN", start_line |-> 10, end_line |-> 20]
IdB == [pgm_name |-> "", inc_name |-> "", type |-> "",
        name |-> "", start_line |-> 0, end_line |-> 0]
IdC == [pgm_name |-> "ZOTHER", inc_name |-> "ZINC", type |-> "FORM",
        name |-> "SUB", start_line |-> 3, end_line |-> 7]

\* a finding the caller sent along with a unit
StaleFinding ==
    [pgm_name |-> "OLD", inc_name |-> "OLD", type |-> "OLD", name |-> "OLD",
     start_line |-> 1, end_line |-> 1, issue_type |-> "Stale", severity |-> "info",
     line |-> 99, message |-> "", suggestion |-> "", snippet |-> <<"?">>]

\* the JSON object with the keys in present; code and supplied are Optional
Raw(id, present, code, supplied) ==
    [present |-> present,
     val |-> [pgm_name |-> id.pgm_name, inc_name |-> id.inc_name, type |-> id.type,
              name |-> id.name, start_line |-> id.start_line,
              end_line |-> id.end_line, code |-> code,
              rule111_findings |-> supplied]]

FullRaw(id, text) == Raw(id, UnitFields \ {"rule111_findings"}, <<text>>, <<>>)

SampleRaws ==
    { FullRaw(IdA, OpenDatasetX \o <<DOT>>),
      Raw(IdB, UnitFields,
          <<OpenDatasetX \o InTextMode \o <<DOT>> \o SP \o OpenDatasetX \o <<DOT, NL>>
            \o OpenDatasetX \o InBinaryMode \o <<DOT, NL>> \o OpenDatasetX \o <<DOT, NL>>
            \o OpenDatasetX>>,
          << <<StaleFinding>> >>),
      Raw(IdC, UnitFields, <<OpenDatasetX \o InBinaryMode \o <<DOT>>>>,
          << <<StaleFinding>> >>),
      Raw(IdC, RequiredFields, <<OpenDatasetX \o <<DOT>>>>, <<>>),
      Raw(IdA, UnitFields \ {"rule111_findings"}, <<>>, <<>>),
      FullRaw(IdC, <<>>),
      Raw(IdA, UnitFields \ {"pgm_name"}, <<OpenDatasetX \o <<DOT>>>>, <<>>),
      Raw(IdA, UnitFields \ {"inc_name", "name"}, <<OpenDatasetX \o <<DOT>>>>, <<>>),
      Raw(IdA, UnitFields \ {"type", "code"}, <<OpenDatasetX \o <<DOT>>>>, <<>>) }

RECURSIVE Batches(_)
Batches(n) ==
    IF n = 0 THEN {<<>>}
    ELSE LET B == Batches(n - 1) IN B \cup {Append(b, r) : b \in B, r \in SampleRaws}

Requests ==
    Batches(MaxBatch)
    \cup { <<FullRaw(IdA, t)>> : t \in PieceTexts \cup PaddedTexts \cup BinaryTexts }

----------------------------------------------------------------------------
(* The state machine.                                                      *)

Init ==
    /\ request \in Requests
    /\ pc = "recv"
    /\ units = <<>>
    /\ ui = 1
    /\ src = <<>>
    /\ pos = 0
    /\ findings = <<>>
    /\ matches = <<>>
    /\ calls = <<>>
    /\ results = <<>>

\* the request body fails validation as List[Unit]: the handler is not called
Reject ==
    /\ pc = "recv"
    /\ \E k \in DOMAIN request : ~ IsValidUnit(request[k])
    /\ pc' = "rejected"
    /\ UNCHANGED <<request, units, ui, src, pos, findings, matches, calls, results>>

\* the request body is parsed into units and scan_rule111 starts (line 123)
Accept ==
    /\ pc = "recv"
    /\ \A k \in DOMAIN request : IsValidUnit(request[k])
    /\ units' = [k \in DOMAIN request |-> ParseUnit(request[k])]
    /\ ui' = 1
    /\ results' = <<>>
    /\ pc' = "loop"
    /\ UNCHANGED <<request, src, pos, findings, matches, calls>>

\* for u in units: scan_unit(u) is entered (lines 124-125, 66-67)
BeginScan ==
    /\ pc = "loop"
    /\ ui <= Len(units)
    /\ src' = CodeOrEmpty(units[ui])
    /\ findings' = <<>>
    /\ matches' = <<>>
    /\ pos' = 0
    /\ pc' = "scan"
    /\ UNCHANGED <<request, units, ui, calls, results>>

\* one iteration of the loop of line 69
ScanStep ==
    /\ pc = "scan"
    /\ LET m == STMT_RE_search(src, pos) IN
       /\ m # <<>>
       /\ LET start == m[1]
              end == m[2]
              stmt == Slice(src, start, end)
              has_mode == MODE_RE_search(stmt)
              is_text_mode == TEXT_MODE_RE_search(stmt)
              has_encoding == ENCODING_RE_search(stmt)
              new == Emit(units[ui], src, start, end,
                          has_mode, is_text_mode, has_encoding)
          IN /\ findings' = findings_append(findings, new)
             /\ matches' = Append(matches,
                    [start |-> start, end |-> end, has_mode |-> has_mode,
                     is_text_mode |-> is_text_mode, has_encoding |-> has_encoding,
                     emitted |-> new])
             /\ pos' = end
    /\ UNCHANGED <<request, pc, units, ui, src, calls, results>>

\* the iterator is exhausted: scan_unit returns (lines 113-115) and
\* scan_rule111 keeps or drops the result (lines 126-127)
ScanEnd ==
    /\ pc = "scan"
    /\ STMT_RE_search(src, pos) = <<>>
    /\ LET res == ScanResult(units[ui], findings) IN
       /\ calls' = Append(calls, [unit |-> ui, src |-> src,
                                  matches |-> matches, res |-> res])
       /\ results' = IF ShouldReport(res) THEN results_append(results, res)
                     ELSE results
    /\ ui' = ui + 1
    /\ pc' = "loop"
    /\ UNCHANGED <<request, units, src, pos, findings, matches>>

\* return results, line 128
Respond ==
    /\ pc = "loop"
    /\ ui > Len(units)
    /\ pc' = "done"
    /\ UNCHANGED <<request, units, ui, src, pos, findings, matches, calls, results>>

Next == Reject \/ Accept \/ BeginScan \/ ScanStep \/ ScanEnd \/ Respond

Spec == Init /\ [][Next]_vars

----------------------------------------------------------------------------
(* Properties.                                                             *)

RECURSIVE FlattenEmitted(_)
\* the findings of a sequence of iterations, in iteration order
FlattenEmitted(ms) ==
    IF ms = <<>> THEN <<>> ELSE Head(ms).emitted \o FlattenEmitted(Tail(ms))

\* the findings scan_unit returned in call c
Returned(c) == c.res.rule111_findings[1]

\* the span of iteration m of a scan of text
StmtOf(text, m) == Slice(text, m.start, m.end)

\* C1: every span yields what the ordered two-step policy says, and nothing
\* else: without a mode exactly one OpenDatasetNoMode warning; with a mode,
\* in text mode and without an encoding exactly one OpenDatasetTextNoEncoding
\* info; otherwise nothing.  The findings list holds exactly these findings.
C1_TwoStepPolicy ==
    /\ findings = FlattenEmitted(matches)
    /\ \A k \in DOMAIN matches :
         LET m == matches[k]
             e == m.emitted
         IN /\ Len(e) <= 1
            /\ IF ~ m.has_mode
               THEN /\ Len(e) = 1
                    /\ e[1].issue_type = "OpenDatasetNoMode"
                    /\ e[1].severity = "warning"
                    /\ e[1].message = "OPEN DATASET without MODE or ENCODING."
               ELSE IF m.is_text_mode /\ ~ m.has_encoding
               THEN /\ Len(e) = 1
                    /\ e[1].issue_type = "OpenDatasetTextNoEncoding"
                    /\ e[1].severity = "info"
                    /\ e[1].message = "OPEN DATASET in TEXT MODE without explicit ENCODING."
               ELSE e = <<>>

\* one scan has met all three outcomes, one of them in text mode with an encoding
C1_Witness ==
    /\ \E k \in DOMAIN matches : ~ matches[k].has_mode /\ Len(matches[k].emitted) = 1
    /\ \E k \in DOMAIN matches :
         matches[k].is_text_mode /\ ~ matches[k].has_encoding
         /\ Len(matches[k].emitted) = 1
    /\ \E k \in DOMAIN matches : matches[k].has_mode /\ matches[k].emitted = <<>>

\* The source texts of the model hold no backslash, so every backslash of a
\* snippet is the escaping overhead of one newline.
SourceChars(snip) ==
    Len(snip) - Cardinality({k \in DOMAIN snip : snip[k] = BACKSLASH})

\* C2 as claimed: the snippet of every finding is built from at most 120
\* source characters and holds no newline.
C2_Original ==
    \A k \in DOMAIN findings :
        /\ SourceChars(findings[k].snippet) <= 2 * SnippetPad
        /\ NL \notin Range(findings[k].snippet)

\* C2 amended: the snippet of every finding is built from at most the length
\* of the matched statement plus 120 source characters, and holds no newline.
C2_SnippetBound ==
    /\ findings = FlattenEmitted(matches)
    /\ \A k \in DOMAIN matches : \A n \in DOMAIN matches[k].emitted :
         LET m == matches[k]
             snip == m.emitted[n].snippet
         IN /\ SourceChars(snip) <= (m.end - m.start) + 2 * SnippetPad
            /\ NL \notin Range(snip)

\* a snippet cut on both sides, with escaped newlines, of the full width
C2_Witness ==
    \E k \in DOMAIN matches : \E n \in DOMAIN matches[k].emitted :
        LET m == matches[k]
            snip == m.emitted[n].snippet
        IN /\ SourceChars(snip) = (m.end - m.start) + 2 * SnippetPad
           /\ SourceChars(snip) < Len(src)
           /\ BACKSLASH \in Range(snip)

\* C3: the findings are in the order of their spans: the spans have
\* ascending start offsets, the findings are those of the spans in that
\* order, and their line numbers never decrease (two statements that begin
\* on one line have equal line numbers).
C3_SourceOrder ==
    /\ findings = FlattenEmitted(matches)
    /\ \A i, j \in DOMAIN matches :
         i < j => matches[i].start < matches[j].start
    /\ \A i, j \in DOMAIN findings :
         i < j => findings[i].line <= findings[j].line
    /\ \A c \in DOMAIN calls :
         /\ Returned(calls[c]) = FlattenEmitted(calls[c].matches)
         /\ \A i, j \in DOMAIN Returned(calls[c]) :
              i < j => Returned(calls[c])[i].line <= Returned(calls[c])[j].line

\* three findings returned, two of one line and one of a later line
C3_Witness ==
    \E c \in DOMAIN calls :
        LET fs == Returned(calls[c]) IN
        /\ Len(fs) >= 3
        /\ fs[1].line = fs[2].line
        /\ fs[2].line < fs[3].line

\* the literal frame of OPEN DATASET <name> IN BINARY MODE.
BinaryHead == OPEN \o SP \o DATASET \o SP
BinaryTail == InBinaryMode \o <<DOT>>

\* t is OPEN DATASET <name> IN BINARY MODE. for some name
IsBinaryStmt(t) ==
    /\ Len(t) >= Len(BinaryHead) + Len(BinaryTail)
    /\ SubSeq(t, 1, Len(BinaryHead)) = BinaryHead
    /\ SubSeq(t, Len(t) - Len(BinaryTail) + 1, Len(t)) = BinaryTail

\* the <name> of such a statement
NameOf(t) == SubSeq(t, Len(BinaryHead) + 1, Len(t) - Len(BinaryTail))

\* a name of one token with no period in it
PlainName(n) == \A k \in DOMAIN n : n[k] # DOT /\ ~ IsSpace(n[k])

\* C4 as claimed: a unit that is the statement OPEN DATASET <name> IN BINARY
\* MODE. gets no finding, whatever the name.
C4_Original ==
    (pc \in {"scan", "loop", "done"} /\ IsBinaryStmt(src)) => findings = <<>>

\* C4 amended: for every dataset name that holds no period and no
\* whitespace, a unit that is the statement OPEN DATASET <name> IN BINARY
\* MODE. gets no finding, and a span that is such a statement yields none.
C4_BinaryNoFinding ==
    /\ (pc \in {"scan", "loop", "done"} /\ IsBinaryStmt(src) /\ PlainName(NameOf(src)))
          => findings = <<>>
    /\ \A k \in DOMAIN matches :
         LET stmt == StmtOf(src, matches[k]) IN
         (IsBinaryStmt(stmt) /\ PlainName(NameOf(stmt)))
            => (matches[k].has_mode /\ matches[k].emitted = <<>>)

\* the statement with a quoted name has been scanned as one span
C4_Witness ==
    /\ IsBinaryStmt(src)
    /\ PlainName(NameOf(src))
    /\ Len(NameOf(src)) = 3 /\ NameOf(src)[1] = "'" /\ NameOf(src)[3] = "'"
    /\ Len(matches) = 1
    /\ StmtOf(src, matches[1]) = src
    /\ pc = "done"
    /\ results = <<>>

\* OPEN, whitespace, DATASET in any case from offset i to offset j, as two
\* whole words
IsOpenDataset(text, i, j) ==
    LET w == j - i - Len(OPEN) - Len(DATASET) IN
    /\ 0 <= i /\ j <= Len(text) /\ w >= 1
    /\ \A k \in 1..Len(OPEN) : Upper(text[i + k]) = OPEN[k]
    /\ \A k \in 1..w : text[i + Len(OPEN) + k] \in SpaceChars
    /\ \A k \in 1..Len(DATASET) : Upper(text[i + Len(OPEN) + w + k]) = DATASET[k]
    /\ (i = 0 \/ text[i] \notin WordChars)
    /\ (j = Len(text) \/ text[j + 1] \notin WordChars)

\* the offsets at which an O or an o stands
OffsetsOfO(text) == {i \in 0..(Len(text) - 1) : Upper(text[i + 1]) = "O"}

OccursAt(text, i) == \E j \in i..Len(text) : IsOpenDataset(text, i, j)

\* a "." at or after offset j
TerminatedAfter(text, j) == \E d \in j..(Len(text) - 1) : text[d + 1] = DOT

\* C5: the spans are those of a left-to-right scan.  Each starts at the
\* leftmost OPEN DATASET at or after the end of the span before it, ends
\* with the first "." after that start, which is its only ".", and overlaps
\* no other span; when the scan is over no OPEN DATASET followed by a "."
\* is left after the last span, and one that no "." follows is in no span.
C5_Spans ==
    /\ pos = (IF matches = <<>> THEN 0 ELSE matches[Len(matches)].end)
    /\ \A k \in DOMAIN matches :
         LET m == matches[k]
             prev == IF k = 1 THEN 0 ELSE matches[k - 1].end
         IN /\ prev <= m.start /\ m.start < m.end /\ m.end <= Len(src)
            /\ \E j \in m.start..m.end :
                 IsOpenDataset(src, m.start, j) /\ j < m.end
            /\ \A i \in OffsetsOfO(src) :
                 (prev <= i /\ i < m.start) => ~ OccursAt(src, i)
            /\ src[m.end] = DOT
            /\ \A d \in m.start..(m.end - 2) : src[d + 1] # DOT
    /\ (pc \in {"loop", "done"} /\ calls # <<>>) =>
         \A i \in OffsetsOfO(src) : \A j \in i..Len(src) :
            (pos <= i /\ IsOpenDataset(src, i, j)) => ~ TerminatedAfter(src, j)

\* a finished scan with two spans, text between them, and an OPEN DATASET
\* that no "." follows left over
C5_Witness ==
    /\ pc = "loop" /\ calls # <<>>
    /\ Len(matches) >= 2
    /\ matches[1].end < matches[2].start
    /\ \E i \in pos..Len(src) : OccursAt(src, i)

\* C6: line is one more than the number of newlines before the start
\* offset of the statement, hence at least 1 and at most one more than the
\* number of newlines of the text; for a statement of several lines it is
\* the line of its first character.
C6_Line ==
    \A k \in DOMAIN matches : \A n \in DOMAIN matches[k].emitted :
        LET m == matches[k]
            line == m.emitted[n].line
        IN /\ line = 1 + Cardinality({i \in 0..(m.start - 1) : src[i + 1] = NL})
           /\ line >= 1
           /\ line <= 1 + Cardinality({i \in DOMAIN src : src[i] = NL})

\* a finding on a later line for a statement that runs over a line break
C6_Witness ==
    \E k \in DOMAIN matches :
        /\ Len(matches[k].emitted) = 1
        /\ matches[k].emitted[1].line >= 2
        /\ NL \in Range(StmtOf(src, matches[k]))
        /\ matches[k].emitted[1] \in Range(findings)

RECURSIVE Reported(_)
\* what the calls returned, without the returns that hold no finding
Reported(cs) ==
    IF cs = <<>> THEN <<>>
    ELSE (IF Returned(Head(cs)) # <<>> THEN <<Head(cs).res>> ELSE <<>>)
         \o Reported(Tail(cs))

\* C7: when the batch is answered, scan_unit has been called once per unit,
\* in batch order, each call on the unit's own source text and returning the
\* unit with the findings of that scan in place of whatever rule111_findings
\* the caller sent; the response is the returns that hold a finding, in
\* batch order, and nothing else.
C7_Batch ==
    /\ Len(calls) <= Len(units)
    /\ \A k \in DOMAIN calls :
         /\ calls[k].unit = k
         /\ calls[k].src = CodeOrEmpty(units[k])
         /\ Returned(calls[k]) = FlattenEmitted(calls[k].matches)
         /\ \A f \in UnitFields \ {"rule111_findings"} :
              calls[k].res[f] = units[k][f]
    /\ results = Reported(calls)
    /\ pc = "done" => Len(calls) = Len(units)

\* a batch of three answered with two of its units, in batch order, the
\* findings a caller sent replaced in one and dropped with the other
C7_Witness ==
    /\ pc = "done"
    /\ Len(units) = 3 /\ Len(results) = 2
    /\ units[1].rule111_findings # <<>> /\ Returned(calls[1]) = <<>>
    /\ units[2].rule111_findings # <<>> /\ results[1] = calls[2].res
    /\ results[2] = calls[3].res
    /\ results[1] # results[2]

\* the six identity fields of finding f are those of record u
SameIdentity(f, u) ==
    /\ f.pgm_name = u.pgm_name /\ f.inc_name = u.inc_name /\ f.type = u.type
    /\ f.name = u.name /\ f.start_line = u.start_line /\ f.end_line = u.end_line

\* C8: the identity fields of every finding are those of the unit that
\* produced it, as the request gave them: the findings of the scan under
\* way, those every call returned, and those of every unit of the response.
C8_Identity ==
    /\ pc = "scan" => \A n \in DOMAIN findings :
         /\ SameIdentity(findings[n], units[ui])
         /\ \A f \in IdentityFields \cap request[ui].present :
              findings[n][f] = request[ui].val[f]
    /\ \A k \in DOMAIN calls : \A n \in DOMAIN Returned(calls[k]) :
         SameIdentity(Returned(calls[k])[n], units[k])
    /\ \A r \in DOMAIN results : \A n \in DOMAIN results[r].rule111_findings[1] :
         SameIdentity(results[r].rule111_findings[1][n], results[r])

\* a response of two units of different identity, one of them with empty
\* and zero identity fields, each with findings
C8_Witness ==
    /\ pc = "done"
    /\ Len(results) = 2
    /\ results[1].pgm_name = "" /\ results[1].start_line = 0
    /\ results[2].pgm_name # "" /\ results[2].start_line # results[2].end_line
    /\ Returned(calls[1]) # <<>>

\* C9 as claimed: a record may omit any identity field and the source text:
\* no request is rejected, and a unit without source text has no finding.
C9_Original ==
    /\ pc # "rejected"
    /\ \A k \in DOMAIN calls : calls[k].src = <<>> => Returned(calls[k]) = <<>>

\* C9 amended: a record may omit name, start_line, end_line and code, which
\* default to "", 0, 0 and "", and is then accepted and scanned; pgm_name,
\* inc_name and type have no default, and a request with a record that omits
\* one of them is rejected with nothing scanned.  A unit whose source text
\* is absent, null or empty has no finding.
C9_OptionalFields ==
    LET required == {"pgm_name", "inc_name", "type"}
        complete == \A k \in DOMAIN request : required \subseteq request[k].present
    IN /\ pc = "rejected" => (~ complete /\ calls = <<>> /\ results = <<>>)
       /\ pc \in {"loop", "scan", "done"} =>
            /\ complete
            /\ Len(units) = Len(request)
            /\ \A k \in DOMAIN request :
                 LET raw == request[k]
                     has(f) == f \in raw.present
                 IN /\ units[k].name = (IF has("name") THEN raw.val.name ELSE "")
                    /\ units[k].start_line =
                         (IF has("start_line") THEN raw.val.start_line ELSE 0)
                    /\ units[k].end_line =
                         (IF has("end_line") THEN raw.val.end_line ELSE 0)
                    /\ CodeOrEmpty(units[k]) =
                         (IF has("code") /\ raw.val.code # <<>>
                          THEN raw.val.code[1] ELSE <<>>)
       /\ pc = "done" => Len(calls) = Len(request)
       /\ \A k \in DOMAIN calls :
            (~ ("code" \in request[k].present) \/ request[k].val.code = <<>>
               \/ request[k].val.code = << <<>> >>)
            => (calls[k].src = <<>> /\ Returned(calls[k]) = <<>>)

\* a batch answered whose units left out every field that has a default,
\* gave a null source text, and gave an empty one
C9_Witness ==
    /\ pc = "done"
    /\ Len(request) = 3
    /\ request[1].present = {"pgm_name", "inc_name", "type"}
    /\ "code" \in request[2].present /\ request[2].val.code = <<>>
    /\ "code" \in request[3].present /\ request[3].val.code = << <<>> >>
    /\ results = <<>>

\* OPEN, whitespace, DATASET in any case somewhere in text, as words or not
ContainsOpenDataset(text) ==
    \E i \in OffsetsOfO(text) : \E j \in i..Len(text) :
        LET w == j - i - Len(OPEN) - Len(DATASET) IN
        /\ w >= 1
        /\ \A k \in 1..Len(OPEN) : Upper(text[i + k]) = OPEN[k]
        /\ \A k \in 1..w : text[i + Len(OPEN) + k] \in SpaceChars
        /\ \A k \in 1..Len(DATASET) : Upper(text[i + Len(OPEN) + w + k]) = DATASET[k]

\* C10: a scan goes on to its end whatever the text (every iteration moves
\* the search on by at least one character and never past the end of the
\* text); a scan of a text without OPEN DATASET meets no span and returns no
\* finding, and the response leaves that unit out.
C10_NoOccurrence ==
    /\ pc = "scan" => (Len(matches) <= pos /\ pos <= Len(src))
    /\ (pc = "scan" /\ ~ ContainsOpenDataset(src)) =>
         (matches = <<>> /\ findings = <<>>)
    /\ \A k \in DOMAIN calls :
         ~ ContainsOpenDataset(calls[k].src) =>
            /\ calls[k].matches = <<>>
            /\ Returned(calls[k]) = <<>>
            /\ \A r \in DOMAIN results : results[r] # calls[k].res

\* a text of periods, line breaks and letters without OPEN DATASET has
\* been scanned and the batch answered with nothing
C10_Witness ==
    /\ pc = "done"
    /\ Len(calls) = 1
    /\ Len(calls[1].src) >= 3
    /\ DOT \in Range(calls[1].src) /\ NL \in Range(calls[1].src)
    /\ ~ ContainsOpenDataset(calls[1].src)
    /\ results = <<>>

====
